---------------------------- MODULE Spec2Model ----------------------------
(***************************************************************************)
(* A state-machine model of pypls' CrossValidation class                   *)
(* (cross_validation.py): construction, the fold loop of fit, the summary  *)
(* of the cross validation, the final refit, predict and the property      *)
(* accessors.                                                              *)
(*                                                                         *)
(* The Scaler and the Estimator are external objects.  The Scaler's state  *)
(* is the identity of the data its parameters were fitted on (which        *)
(* variable, which rows); the Estimator's state is the rows and the        *)
(* component count of its last fit.  A predicted value is kept by its sign *)
(* (the only thing _summary_cv reads of it); a score is kept by the        *)
(* component count it was computed at.  A cell of an np.empty array that   *)
(* was never assigned holds an arbitrary value.                            *)
(***************************************************************************)
EXTENDS Integers, FiniteSets, Sequences, TLC

\* ------------------------------------------------------------ bounds
MaxN == 4      \* x has 1..MaxN rows
MaxP == 3      \* x has 1..MaxP columns
MaxK == 4      \* kfold is in 1..MaxK

\* ------------------------------------------------------------ inputs
\* the identifiers __init__ is called with: the two it knows and another one
EstimatorIds == {"pls", "opls", "svm"}

\* y: np.ndarray of 0 and 1, n by 1
Labels(nn) ==
    { [r \in 0..(nn-1) |-> r % 2],
      [r \in 0..(nn-1) |-> IF r = 0 THEN 1 ELSE 0] }

\* How the fitted external estimator answers on a held-out row: always a
\* positive value, a sign alternating with row and component count, or the
\* right class from m components on.
Rules ==
    {[kind |-> "pos", m |-> 0], [kind |-> "alt", m |-> 0]}
    \cup {[kind |-> "exact", m |-> m] : m \in 1..MaxP}

Min(a, b) == IF a < b THEN a ELSE b

\* ------------------------------------------------------------ values
Empty == -1            \* a cell of np.empty(...) never assigned
None == -1             \* self._opt_component = None
NoArray == <<>>        \* an array attribute that is None

NoParams == [var |-> "none", rows |-> {}]
NoModel(kind) == [kind |-> kind, fitted |-> FALSE, rows |-> {}, n_comp |-> 0]
NoUse == [scaler |-> NoParams, model |-> NoModel("unset"), npc |-> 0]

\* ------------------------------------------------------------ state
VARIABLES
    pc,              \* where the object is: "new", "ready", or a step of fit
    estimator_id,    \* self.estimator_id
    kfold,           \* self.kfold
    estimator,       \* self.estimator: kind "unset" when the attribute is missing
    scaler,          \* self.scaler: the data its stored parameters were fitted on
    n, p, y,         \* fit: x.shape and y
    rule,            \* fit: how the estimator answers (an input)
    npc0,            \* fit: npc0
    fold,            \* _split: i, the number of pairs yielded so far
    folds,           \* _split: the (train_index, test_index) pairs yielded so far
    npc, k,          \* fit: npc of the current fold, k of the component loop
    ypred, pressy,   \* fit: ypred, pressy (np.empty((n, npc0)))
    tortho, tpred,   \* fit: tortho, tpred (np.empty((n, npc0)))
    writes,          \* history: per cell of ypred, the folds that assigned it, in order
    scales,          \* history: the scaler.scale calls of the current fold
    opt_component,   \* self._opt_component
    mis_classifications, \* self._mis_classifications
    saved,           \* lines 157-168 ran: self._ypred, self._Tortho, ... are set
    fitted,          \* fit has returned normally
    lastCall,        \* the last public call and how it ended
    retVal,          \* what the last property read returned
    used             \* what the last predict call scaled and predicted with

vars == <<pc, estimator_id, kfold, estimator, scaler, n, p, y, rule, npc0, fold,
          folds, npc, k, ypred, pressy, tortho, tpred, writes, scales,
          opt_component, mis_classifications, saved, fitted, lastCall, retVal,
          used>>

object == <<estimator_id, kfold>>
locals == <<n, p, y, rule>>
arrays == <<ypred, pressy, tortho, tpred, writes>>
summary == <<opt_component, mis_classifications, saved, fitted>>

\* ------------------------------------------------------------ _split
\* variant: the block's upper end leaves its last row out
TestIndexShort(nn, kf, i) ==
    LET blk == nn \div kf
    IN  {r \in 0..(nn-1) : blk * i <= r /\ r < Min(blk * (i + 1), nn) - 1}

\* variant: the block's upper end is inclusive
TestIndexWide(nn, kf, i) ==
    LET blk == nn \div kf
    IN  {r \in 0..(nn-1) : blk * i <= r /\ r <= Min(blk * (i + 1), nn)}

\* train_index[blk * i: min(blk * (i + 1), n)] = False
TestIndex(nn, kf, i) ==
    LET blk == nn \div kf
    IN  {r \in 0..(nn-1) : blk * i <= r /\ r < Min(blk * (i + 1), nn)}

TrainIndex(nn, kf, i) == (0..(nn-1)) \ TestIndex(nn, kf, i)

\* the i-th pair the generator yields
SplitYield(nn, kf, i) ==
    [train |-> TrainIndex(nn, kf, i), test |-> TestIndex(nn, kf, i)]

\* ------------------------------------------------------------ __init__
\* if estimator == "pls": ... elif estimator == "opls": ... (no else)
NewEstimator(id) ==
    IF id = "pls" THEN NoModel("PLS")
    ELSE IF id = "opls" THEN NoModel("OPLS")
    ELSE NoModel("unset")

Init ==
    /\ pc = "new"
    /\ estimator_id = "none"
    /\ kfold = 0
    /\ estimator = NoModel("unset")
    /\ scaler = NoParams
    /\ n = 0 /\ p = 0 /\ y = <<>>
    /\ rule = [kind |-> "none", m |-> 0]
    /\ npc0 = 0 /\ fold = 0 /\ folds = <<>> /\ npc = 0 /\ k = 0
    /\ ypred = NoArray /\ pressy = NoArray /\ tortho = NoArray /\ tpred = NoArray
    /\ writes = NoArray
    /\ scales = <<>>
    /\ opt_component = None
    /\ mis_classifications = <<>>
    /\ saved = FALSE
    /\ fitted = FALSE
    /\ lastCall = [op |-> "none", outcome |-> "none"]
    /\ retVal = <<>>
    /\ used = NoUse

Construct ==
    /\ pc = "new"
    /\ \E id \in EstimatorIds, kf \in 1..MaxK :
          /\ estimator_id' = id
          /\ kfold' = kf
          /\ estimator' = NewEstimator(id)
    /\ scaler' = NoParams
    /\ pc' = "ready"
    /\ lastCall' = [op |-> "__init__", outcome |-> "ok"]
    /\ UNCHANGED <<locals, npc0, fold, folds, npc, k, arrays, scales, summary,
                   retVal, used>>

\* ------------------------------------------------------------ fit
EmptyArray(rows, cols) == [c \in (0..(rows-1)) \X (0..(cols-1)) |-> Empty]
NoWrites(rows, cols) == [c \in (0..(rows-1)) \X (0..(cols-1)) |-> <<>>]

\* lines 86-92; fit is called once on an object (n = 0: not called yet)
FitStart ==
    /\ pc = "ready"
    /\ n = 0
    /\ \E nn \in 1..MaxN, pp \in 1..MaxP :
          /\ n' = nn
          /\ p' = pp
          /\ \E yy \in Labels(nn) : y' = yy
          /\ npc0' = Min(nn, pp)
          /\ ypred' = EmptyArray(nn, Min(nn, pp))
          /\ pressy' = EmptyArray(nn, Min(nn, pp))
          /\ tortho' = EmptyArray(nn, Min(nn, pp))
          /\ tpred' = EmptyArray(nn, Min(nn, pp))
          /\ writes' = NoWrites(nn, Min(nn, pp))
    /\ \E ru \in Rules : rule' = ru
    /\ fold' = 0
    /\ folds' = <<>>
    /\ npc' = 0 /\ k' = 0
    /\ scales' = <<>>
    /\ pc' = "split"
    /\ lastCall' = [op |-> "fit", outcome |-> "running"]
    /\ retVal' = <<>>
    /\ UNCHANGED <<object, estimator, scaler, summary, used>>

\* for train_index, test_index in self._split(n): the generator yields its
\* next pair, or is exhausted and the loop ends
NextFold ==
    /\ pc = "split"
    /\ IF fold < kfold
         THEN /\ folds' = Append(folds, SplitYield(n, kfold, fold))
              /\ pc' = "scale"
         ELSE /\ folds' = folds
              /\ pc' = "save"
    /\ scales' = <<>>
    /\ UNCHANGED <<object, estimator, scaler, locals, npc0, fold, npc, k, arrays,
                   summary, lastCall, retVal, used>>

\* ------------------------------------------------------------ Scaler
\* Scaler.fit(matrix): computes and stores the parameters of matrix
ScalerFit(var, rows) == [var |-> var, rows |-> rows]

\* Scaler.scale(matrix): applies the stored parameters s, does not refit
ScalerScale(s, what, rows) == [what |-> what, rows |-> rows, params |-> s]

\* variant: both fits come before both scale calls
FoldScalingFitsFirst(train, test) ==
    LET s1 == ScalerFit("x", train)
        s2 == ScalerFit("y", train)
        c1 == ScalerScale(s2, "x", test)
        c2 == ScalerScale(s2, "y", test)
    IN  [scaler |-> s2, calls |-> <<c1, c2>>]

\* lines 98-101: the new state of the shared scaler and its two scale calls
FoldScaling(train, test) ==
    LET s1 == ScalerFit("x", train)
        c1 == ScalerScale(s1, "x", test)
        s2 == ScalerFit("y", train)
        c2 == ScalerScale(s2, "y", test)
    IN  [scaler |-> s2, calls |-> <<c1, c2>>]

Cur == folds[Len(folds)]

\* lines 94-105
FoldScale ==
    /\ pc = "scale"
    /\ LET fs == FoldScaling(Cur.train, Cur.test)
       IN  /\ scaler' = fs.scaler
           /\ scales' = fs.calls
    /\ pc' = "estfit"
    /\ UNCHANGED <<object, estimator, locals, npc0, fold, folds, npc, k, arrays,
                   summary, lastCall, retVal, used>>

\* ------------------------------------------------------------ Estimator
\* Estimator.fit(x, y, n_comp): overwrites the fitted state
EstimatorFit(e, rows, nc) ==
    [kind |-> e.kind, fitted |-> TRUE, rows |-> rows, n_comp |-> nc]

\* npc = min(xtr.shape)
FoldNpc(train, pp) == Min(Cardinality(train), pp)

\* line 109 when self.estimator was never set: AttributeError leaves fit
FoldEstimatorMissing ==
    /\ pc = "estfit"
    /\ estimator.kind = "unset"
    /\ pc' = "ready"
    /\ lastCall' = [op |-> "fit", outcome |-> "AttributeError"]
    /\ UNCHANGED <<object, estimator, scaler, locals, npc0, fold, folds, npc, k,
                   arrays, scales, summary, retVal, used>>

\* lines 108-111; with kfold = 1 the training slice is empty and npc = 0
FoldEstimatorFit ==
    /\ pc = "estfit"
    /\ estimator.kind # "unset"
    /\ npc' = FoldNpc(Cur.train, p)
    /\ estimator' = EstimatorFit(estimator, Cur.train, npc')
    /\ npc0' = IF npc' < npc0 THEN npc' ELSE npc0
    /\ k' = 1
    /\ pc' = "comp"
    /\ UNCHANGED <<object, scaler, locals, fold, folds, arrays, scales, summary,
                   lastCall, retVal, used>>

\* the sign of estimator.predict(...) on held-out row r at kk components:
\* 1 for a positive value, 0 otherwise
PredSign(ru, r, kk, yy) ==
    CASE ru.kind = "pos" -> 1
      [] ru.kind = "alt" -> (r + kk) % 2
      [] OTHER -> IF kk >= ru.m THEN yy[r] ELSE 1 - yy[r]

\* arr[test_index, col] = value, value holding one entry per test row
Assign(arr, test, col, value) ==
    [c \in DOMAIN arr |-> IF c[1] \in test /\ c[2] = col THEN value[c[1]] ELSE arr[c]]

\* lines 128-131: the column of tortho that receives tcorr
TorthoColumn(test, kk) == IF Cardinality(test) = 1 THEN 0 ELSE kk - 1

\* a score computed at kk components
ScoreAt(kk) == kk

\* lines 114-152, one pass of the component loop
FoldComponent ==
    /\ pc = "comp"
    /\ k <= npc
    /\ LET test == Cur.test
           score == [r \in test |-> ScoreAt(k)]
           sign == [r \in test |-> PredSign(rule, r, k, y)]
           press == [r \in test |-> 1]
           logged(c) == IF c[1] \in test /\ c[2] = k - 1
                          THEN Append(writes[c], fold) ELSE writes[c]
       IN  /\ IF estimator_id = "opls"
                THEN /\ tortho' = Assign(tortho, test, TorthoColumn(test, k), score)
                     /\ tpred' = Assign(tpred, test, k - 1, score)
                ELSE UNCHANGED <<tortho, tpred>>
           /\ ypred' = Assign(ypred, test, k - 1, sign)
           /\ pressy' = Assign(pressy, test, k - 1, press)
           /\ writes' = [c \in DOMAIN writes |-> logged(c)]
    /\ k' = k + 1
    /\ UNCHANGED <<pc, object, estimator, scaler, locals, npc0, fold, folds, npc,
                   scales, summary, lastCall, retVal, used>>

\* line 154, and the generator resumes: i moves on
FoldEnd ==
    /\ pc = "comp"
    /\ k > npc
    /\ fold' = fold + 1
    /\ pc' = "split"
    /\ UNCHANGED <<object, estimator, scaler, locals, npc0, folds, npc, k, arrays,
                   scales, summary, lastCall, retVal, used>>

\* ------------------------------------------------------------ _summary_cv
AllRows == 0..(n-1)

\* rows of column c never assigned by the fold loop
EmptyRows(arr, c) == {r \in AllRows : arr[<<r, c>>] = Empty}

\* _pred_class = (self._ypred > 0); a mismatch with self.y in column c, counted
\* over the rows the fold loop assigned
KnownMisses(c) ==
    Cardinality({r \in AllRows : ypred[<<r, c>>] # Empty /\ ypred[<<r, c>>] # y[r]})

\* np.argmin: the index (0-based) of the first occurrence of the minimum
RECURSIVE ArgMinFrom(_, _, _)
ArgMinFrom(s, i, best) ==
    IF i > Len(s) THEN best - 1
    ELSE ArgMinFrom(s, i + 1, IF s[i] < s[best] THEN i ELSE best)

\* variant: the last occurrence of the minimum
RECURSIVE ArgMinLastFrom(_, _, _)
ArgMinLastFrom(s, i, best) ==
    IF i > Len(s) THEN best - 1
    ELSE ArgMinLastFrom(s, i + 1, IF s[i] <= s[best] THEN i ELSE best)

ArgMinLast(s) == ArgMinLastFrom(s, 2, 1)

ArgMin(s) == ArgMinFrom(s, 2, 1)

\* lines 157-171 with npc0 = 0: np.argmin of an empty array raises ValueError
SummaryEmpty ==
    /\ pc = "save"
    /\ npc0 = 0
    /\ saved' = TRUE
    /\ pc' = "ready"
    /\ lastCall' = [op |-> "fit", outcome |-> "ValueError"]
    /\ UNCHANGED <<object, estimator, scaler, locals, npc0, fold, folds, npc, k,
                   arrays, scales, opt_component, mis_classifications, fitted,
                   retVal, used>>

\* lines 157-171 and _summary_cv: nmc sums each column of the truncated ypred
\* over all n rows; a row never assigned holds an arbitrary value and may or
\* may not count as a mismatch
Summary ==
    /\ pc = "save"
    /\ npc0 > 0
    /\ saved' = TRUE
    /\ \E g \in [0..(npc0-1) -> 0..n] :
          /\ \A c \in 0..(npc0-1) : g[c] <= Cardinality(EmptyRows(ypred, c))
          /\ mis_classifications' = [j \in 1..npc0 |-> KnownMisses(j-1) + g[j-1]]
    /\ opt_component' = ArgMin(mis_classifications')
    /\ pc' = "refit"
    /\ UNCHANGED <<object, estimator, scaler, locals, npc0, fold, folds, npc, k,
                   arrays, scales, fitted, lastCall, retVal, used>>

\* ------------------------------------------------------------ _create_optimal_model
\* variant: x is fitted before y
RefitScalingXThenY(rows) ==
    LET s1 == ScalerFit("x", rows)
        s2 == ScalerFit("y", rows)
    IN  s2

\* y_scale = self.scaler.fit(y); x_scale = self.scaler.fit(x)
RefitScaling(rows) ==
    LET s1 == ScalerFit("y", rows)
        s2 == ScalerFit("x", rows)
    IN  s2

\* lines 449-464, then fit returns
Refit ==
    /\ pc = "refit"
    /\ scaler' = RefitScaling(AllRows)
    /\ estimator' = EstimatorFit(estimator, AllRows, opt_component + 1)
    /\ fitted' = TRUE
    /\ pc' = "ready"
    /\ lastCall' = [op |-> "fit", outcome |-> "ok"]
    /\ UNCHANGED <<object, locals, npc0, fold, folds, npc, k, arrays, scales,
                   opt_component, mis_classifications, saved, retVal, used>>

\* ------------------------------------------------------------ predict
\* lines 191-196
Predict ==
    /\ pc = "ready"
    /\ IF opt_component = None
         THEN /\ lastCall' = [op |-> "predict", outcome |-> "TypeError"]
              /\ used' = used
         ELSE /\ lastCall' = [op |-> "predict", outcome |-> "ok"]
              /\ used' = [scaler |-> scaler, model |-> estimator,
                          npc |-> opt_component + 1]
    /\ retVal' = <<>>
    /\ UNCHANGED <<pc, object, estimator, scaler, locals, npc0, fold, folds, npc, k,
                   arrays, scales, summary>>

\* ------------------------------------------------------------ properties
OplsOnly == {"orthogonal_score", "predictive_score", "R2Xcorr", "R2XYO",
             "correlation", "covariance", "loadings_cv"}

Properties == OplsOnly \cup {"optimal_component_num", "mis_classifications"}

\* arr[:, :npc0][:, col] as the sequence of its n entries
Column(arr, col) == [j \in 1..n |-> arr[<<j - 1, col>>]]

Raise(e) == [outcome |-> e, value |-> <<>>]
Return(v) == [outcome |-> "ok", value |-> v]

\* variant: the guard tests for the other estimator
OplsGuardInverted(id) == id = "opls"

\* if self.estimator_id != "opls": raise ValueError(...)
OplsGuard(id) == id # "opls"

\* what reading property name does in the current state
PropertyRead(name) ==
    IF name \in OplsOnly /\ OplsGuard(estimator_id) THEN Raise("ValueError")
    ELSE CASE name \in {"orthogonal_score", "predictive_score"} ->
                \* self._Tortho[:, self._opt_component]
                IF ~saved THEN Raise("TypeError")
                ELSE IF opt_component = None THEN Return(<<>>)
                ELSE Return(Column(IF name = "orthogonal_score" THEN tortho ELSE tpred,
                                   opt_component))
           [] name \in {"R2Xcorr", "R2XYO"} ->
                \* self._r2xcorr is set by _summary_cv only; the entry read is
                \* named by its index
                IF opt_component = None THEN Raise("AttributeError")
                ELSE Return(<<opt_component>>)
           [] name \in {"correlation", "covariance"} ->
                \* self._corr is set by _summary_fit only
                IF ~fitted THEN Raise("AttributeError") ELSE Return(<<>>)
           [] name = "loadings_cv" ->
                \* np.array(self._pcv[self._opt_component+1])
                IF opt_component = None THEN Raise("TypeError")
                ELSE Return(<<opt_component + 1>>)
           [] name = "optimal_component_num" ->
                IF opt_component = None THEN Raise("TypeError")
                ELSE Return(<<opt_component + 1>>)
           [] OTHER -> Return(mis_classifications)

ReadProperty ==
    /\ pc = "ready"
    /\ \E name \in Properties :
          /\ lastCall' = [op |-> name, outcome |-> PropertyRead(name).outcome]
          /\ retVal' = PropertyRead(name).value
    /\ UNCHANGED <<pc, object, estimator, scaler, locals, npc0, fold, folds, npc, k,
                   arrays, scales, summary, used>>

Next ==
    \/ Construct \/ FitStart \/ NextFold \/ FoldScale
    \/ FoldEstimatorMissing \/ FoldEstimatorFit \/ FoldComponent \/ FoldEnd
    \/ SummaryEmpty \/ Summary \/ Refit \/ Predict \/ ReadProperty

Spec == Init /\ [][Next]_vars

\* ------------------------------------------------------------ properties checked
Cells == DOMAIN writes
KeptCells == {c \in Cells : c[2] < npc0}
Yielded == 1..Len(folds)
\* the generator is exhausted: the fold loop of fit has ended
LoopDone ==
    kfold > 0 /\ fold = kfold /\ Len(folds) = kfold /\ pc \in {"save", "refit", "ready"}

\* C1: after fit returns, optimal_component_num is the 1-based position of the
\* first minimum of mis_classifications and lies in 1..npc0, where npc0, the
\* length of mis_classifications, is the least of min(n, p) and every fold's
\* min(training-slice shape).
OptimalComponentIsFirstArgmin ==
    fitted =>
        LET num == opt_component + 1
            m == mis_classifications
        IN  /\ Len(m) = npc0
            /\ num \in 1..npc0
            /\ \A j \in 1..npc0 : m[num] <= m[j]
            /\ \A j \in 1..(num - 1) : m[j] > m[num]
            /\ npc0 <= Min(n, p)
            /\ \A i \in Yielded : npc0 <= Min(Cardinality(folds[i].train), p)
            /\ \/ npc0 = Min(n, p)
               \/ \E i \in Yielded : npc0 = Min(Cardinality(folds[i].train), p)
            /\ (lastCall.op = "optimal_component_num"
                  => lastCall.outcome = "ok" /\ retVal = <<num>>)

\* C1 witness: a fit whose misclassification counts tie at the minimum in a
\* column that is not the first, read back through optimal_component_num.
OptimalComponentTieSeen ==
    /\ fitted
    /\ lastCall.op = "optimal_component_num"
    /\ retVal = <<2>>
    /\ npc0 = 3
    /\ mis_classifications[2] = mis_classifications[3]

\* C2: when kfold divides n, the kfold test sets _split yields are pairwise
\* disjoint and cover 0..n-1; with kfold = n each holds exactly one sample.
SplitPartitionsWhenDivisible ==
    (LoopDone /\ n % kfold = 0) =>
        /\ \A i, j \in Yielded : i # j => folds[i].test \cap folds[j].test = {}
        /\ UNION {folds[i].test : i \in Yielded} = 0..(n-1)
        /\ kfold = n =>
              /\ \A i \in Yielded : Cardinality(folds[i].test) = 1
              /\ \A r \in 0..(n-1) :
                    Cardinality({i \in Yielded : r \in folds[i].test}) = 1

\* C2 witness: a finished split of 4 samples into 2 folds.
SplitDivisibleSeen ==
    LoopDone /\ n % kfold = 0 /\ kfold > 1 /\ kfold < n

\* C3: once fit has returned, the shared scaler holds the parameters fitted on
\* the whole x and the estimator the model fitted on all rows at
\* opt_component+1 components, and they stay so over any later call; a predict
\* call that returns has scaled and predicted with exactly those.
PredictUsesFinalRefit ==
    LET wholeX == [var |-> "x", rows |-> 0..(n-1)]
        final == [kind |-> IF estimator_id = "pls" THEN "PLS" ELSE "OPLS",
                  fitted |-> TRUE, rows |-> 0..(n-1), n_comp |-> opt_component + 1]
    IN  /\ fitted => scaler = wholeX /\ estimator = final
        /\ (lastCall.op = "predict" /\ lastCall.outcome = "ok") =>
              /\ fitted
              /\ used = [scaler |-> wholeX, model |-> final, npc |-> opt_component + 1]

\* C3 witness: predict has returned after a fit with at least two folds.
PredictAfterFitSeen ==
    /\ lastCall = [op |-> "predict", outcome |-> "ok"]
    /\ kfold >= 2
    /\ n > 1

\* C4: on an object built with estimator="pls", a read of an OPLS-only property
\* ends in ValueError whatever the state, and changes nothing of the object.
PlsReadOfOplsOnlyRaises ==
    [][(estimator_id = "pls" /\ lastCall'.op \in OplsOnly) =>
          /\ lastCall'.outcome = "ValueError"
          /\ retVal' = <<>>
          /\ UNCHANGED <<pc, object, estimator, scaler, locals, npc0, fold, folds,
                         npc, k, arrays, scales, summary, used>>]_vars

\* C4 witness: R2Xcorr was read on a fitted "pls" object and raised.
PlsReadAfterFitSeen ==
    /\ estimator_id = "pls"
    /\ fitted
    /\ lastCall = [op |-> "R2Xcorr", outcome |-> "ValueError"]

\* C5: an object is never produced with an identifier other than "pls" or
\* "opls", nor with its estimator unset.
ConstructionFailsFast ==
    pc # "new" => estimator_id \in {"pls", "opls"} /\ estimator.kind # "unset"

\* C6: a cell of ypred (and of pressy) is assigned only by a fold whose test
\* set holds its row, and at most once over the fold loop.
CellWrittenOnceByItsFold ==
    \A c \in Cells :
        /\ Len(writes[c]) <= 1
        /\ \A j \in 1..Len(writes[c]) : c[1] \in folds[writes[c][j] + 1].test
        /\ (ypred[c] # Empty) = (writes[c] # <<>>)
        /\ (pressy[c] # Empty) = (writes[c] # <<>>)

\* C6 witness: a finished fold loop of several folds and several components in
\* which every row was held out.
EveryCellWrittenSeen ==
    /\ LoopDone
    /\ kfold >= 2
    /\ npc0 >= 2
    /\ \A c \in KeptCells : Len(writes[c]) = 1

\* C7: when the fold loop ends, every cell of the first npc0 columns of ypred
\* and pressy has been assigned.  Stated here for kfold <= n, where every
\* fold holds rows out; the claim also covers kfold > n.
LoopPopulatesEveryCell ==
    (LoopDone /\ kfold <= n) =>
        \A c \in KeptCells : ypred[c] # Empty /\ pressy[c] # Empty

\* C8: every scale call of a fold uses parameters fitted on that fold's
\* training slice of the same variable: x first, then y, never on a row of
\* the test slice.
FoldScalesWithOwnTrainingSlice ==
    /\ pc \in {"estfit", "comp"} => Len(scales) = 2
    /\ Len(scales) = 2 => scales[1].what = "x" /\ scales[2].what = "y"
    /\ \A j \in 1..Len(scales) :
          /\ scales[j].rows = Cur.test
          /\ scales[j].params.var = scales[j].what
          /\ scales[j].params.rows = (0..(n-1)) \ Cur.test
          /\ scales[j].params.rows \cap scales[j].rows = {}

\* C8 witness: the second or a later fold has scaled a non-empty test slice.
LaterFoldScaledSeen ==
    /\ pc = "comp"
    /\ fold >= 1
    /\ Len(scales) = 2
    /\ Cur.test # {}

\* C9: with "opls", the score of component count kk is in column kk-1 of
\* tortho at the fold's test rows, whatever the size of the test set, and
\* orthogonal_score returns for each held-out row the score at opt_component+1.
TorthoRecordedPerComponent ==
    /\ (estimator_id = "opls" /\ pc = "comp") =>
          \A kk \in 1..(k - 1) : \A r \in Cur.test : tortho[<<r, kk - 1>>] = kk
    /\ (fitted /\ lastCall = [op |-> "orthogonal_score", outcome |-> "ok"]) =>
          \A i \in Yielded : \A r \in folds[i].test : retVal[r + 1] = opt_component + 1

\* C10: the test sets are consecutive blocks of n \div kfold rows, and the last
\* one runs on to row n-1.  Stated here for kfold <= n, where the blocks are
\* not empty.
LastFoldAbsorbsRemainder ==
    (LoopDone /\ kfold <= n) =>
        LET blk == n \div kfold
        IN  /\ \A i \in 1..(kfold - 1) : folds[i].test = (blk * (i - 1))..(blk * i - 1)
            /\ folds[kfold].test = (blk * (kfold - 1))..(n - 1)

=============================================================================
